---- MODULE Spec2Model ----
(***************************************************************************)
(* The streaming HTTP client of toaweme/http (src/client.go).              *)
(*                                                                         *)
(* Spec         one streaming call (GetStream / PostStream -> doStream):   *)
(*              the caller's goroutine, the background pump goroutine and  *)
(*              a consumer receiving from the stream channel.              *)
(* SpecHeaders  the construction of the header set of one request          *)
(*              (buildRequestParams, the Header.Add loop, the forced       *)
(*              stream headers).                                           *)
(*                                                                         *)
(* Byte strings are sequences of one-character strings.                    *)
(***************************************************************************)
EXTENDS Integers, Sequences, FiniteSets, TLC

\* ------------------------------------------------------------------ bounds
\* complete lines the response body delivers before it ends
MaxLines == 2
\* the stream channel's capacity ranges over 0..MaxCap
MaxCap == 2
\* header names one layer (client defaults, request overrides) may define
MaxHeaders == 2
\* streaming calls one caller makes, one after another or at once
MaxCalls == 2
\* method calls made on one Client value
MaxOps == 3

\* ------------------------------------------------------------- byte strings
\* the bytes bytes.TrimSpace removes (ASCII white space)
WhiteSpace == {" ", "\t", "\n", "\r", "\f"}

RECURSIVE TrimLeft(_)
TrimLeft(s) ==
    IF s # <<>> /\ Head(s) \in WhiteSpace THEN TrimLeft(Tail(s)) ELSE s

RECURSIVE TrimRight(_)
TrimRight(s) ==
    IF s # <<>> /\ s[Len(s)] \in WhiteSpace
    THEN TrimRight(SubSeq(s, 1, Len(s) - 1))
    ELSE s

\* bytes.TrimSpace
TrimSpace(s) == TrimRight(TrimLeft(s))

\* bytes.HasPrefix
HasPrefix(s, p) == Len(s) >= Len(p) /\ SubSeq(s, 1, Len(p)) = p

\* bytes.TrimPrefix
TrimPrefix(s, p) == IF HasPrefix(s, p) THEN SubSeq(s, Len(p) + 1, Len(s)) ELSE s

\* the literals of doStream's loop
PfxData == <<"d", "a", "t", "a", ":", " ">>
PfxEvent == <<"e", "v", "e", "n", "t", ":", " ">>
PfxID == <<"i", "d", ":", " ">>
PfxRetry == <<"r", "e", "t", "r", "y", ":", " ">>
PfxComment == <<":">>
Done == <<"[", "D", "O", "N", "E", "]">>

\* ------------------------------------------------------------ event kinds
StreamResponseTypeEOF == "EOF"
StreamResponseTypeData == "DATA"
StreamResponseTypeEvent == "EVENT"
StreamResponseTypeID == "ID"
StreamResponseTypeRetry == "RETRY"
StreamResponseTypeComment == "COMMENT"

\* the nil error
NilErr == [kind |-> "nil"]

\* http.StatusOK
StatusOK == 200

\* ------------------------------------------------------------ environment
\* Newline-terminated lines the server may put on the wire (what
\* reader.ReadBytes('\n') returns with a nil error).
RawLines ==
    { <<"d", "a", "t", "a", ":", " ", "h", "i", "\n">>,
      <<"d", "a", "t", "a", ":", " ", "[", "D", "O", "N", "E", "]", "\n">>,
      <<" ", "d", "a", "t", "a", ":", " ", "[", "D", "O", "N", "E", "]", "\r", "\n">>,
      <<"e", "v", "e", "n", "t", ":", " ", "e", "\n">>,
      <<"i", "d", ":", " ", "7", "\n">>,
      <<"r", "e", "t", "r", "y", ":", " ", "5", "\n">>,
      <<":", " ", "k", "a", "\n">>,
      <<"h", "i", "\n">>,
      <<"\n">>,
      <<" ", "\t", "\r", "\n">>,
      <<"d", "a", "t", "a", ":", " ", "\n">>,
      <<"d", "a", "t", "a", ":", " ", ":", " ", "c", "\n">>,
      <<"d", "a", "t", "a", ":", " ", " ", "[", "D", "O", "N", "E", "]", "\n">>,
      <<"e", "v", "e", "n", "t", ":", " ", "\n">>,
      <<"i", "d", ":", " ", "\n">>,
      <<"r", "e", "t", "r", "y", ":", " ", "\r", "\n">> }

\* Bytes left unterminated when the body ends (what ReadBytes returns
\* together with a non-nil error).
Tails ==
    { <<>>,
      <<"d", "a", "t", "a", ":", " ", "x">>,
      <<"d", "a", "t", "a", ":", " ", "[", "D", "O", "N", "E", "]">> }

\* The errors a read of the body ends with: io.EOF, or a transport failure.
ReadErrs == {"EOF", "connection reset"}

\* Results of one reader.ReadBytes('\n')
ReadOutcomes ==
    [line : RawLines, err : {"nil"}] \cup [line : Tails, err : ReadErrs]

\* Bodies of non-200 responses (what io.ReadAll returns)
ErrBodies ==
    { <<>>,
      <<"s", "e", "r", "v", "e", "r", " ", "e", "r", "r", "o", "r">>,
      <<"a", "\n", "b">> }

\* Responses client.Do may return: status code and header
Responses ==
    { [StatusCode |-> 200, Header |-> "h200"],
      [StatusCode |-> 404, Header |-> "h404"],
      [StatusCode |-> 500, Header |-> "h500"] }

NoResp == [StatusCode |-> 0, Header |-> "none"]

\* Failures before a response is received
PreflightErrs ==
    { [kind |-> "failed to build request URI"],
      [kind |-> "failed to create request"],
      [kind |-> "failed to send request"] }

VARIABLES
    reqBody,    \* the body argument of doStream: "nil" or "bytes"
    consumerPc, \* the receiver of the channel: "ranging" (a goroutine that
                \* is receiving), "afterCall" (the caller, once the call has
                \* returned) or "stopped"
    ctxDone,    \* the ctx argument has been cancelled
    feed,       \* the complete lines the server may write
    cap,        \* capacity of the channel the caller passed
    stream,     \* the channel: [buf, closed]
    callerPc,   \* where the goroutine calling doStream is
    ret,        \* the error doStream returns
    resp,       \* the response of client.Do
    respBody,   \* the body io.ReadAll read on the non-200 path
    bodyClosed, \* resp.Body.Close() has run
    pumpPc,     \* where the background goroutine is
    pend,       \* the event of the send a goroutine is at
    after,      \* where the pump goes after its send
    linesRead,  \* lines ReadBytes returned with a nil error, in order
    readEnd,    \* the ReadBytes result that carried an error, if any
    sent,       \* history: every event sent on the channel, in order
    closers,    \* history: who closed the channel, in order
    panicked,   \* a run-time panic (send on / close of a closed channel)
    received,   \* what the consumer received, in order
    sawClose    \* the consumer observed the channel closed

\* the arguments and the surroundings of the call
callVars == << reqBody, consumerPc, ctxDone, feed >>

streamVars ==
    << callVars, cap, stream, callerPc, ret, resp, respBody, bodyClosed, pumpPc, pend,
       after, linesRead, readEnd, sent, closers, panicked, received, sawClose >>

VARIABLES
    kind,          \* the method called: "do" (Get, Post, ...) or "doStream"
    hHeaders,      \* h.headers, the client's default headers
    req,           \* the Request: ID, SessionID, Headers
    urlOK,         \* whether url.JoinPath accepts base URL and path
    hdrPc,         \* where the call is in building its request
    headers,       \* the map buildRequestParams returned
    todo,          \* keys of headers the range loop has not visited yet
    httpReqHeader, \* httpReq.Header
    wire           \* the header set handed to client.Do

hdrVars ==
    << kind, hHeaders, req, urlOK, hdrPc, headers, todo, httpReqHeader, wire >>

\* Several calls to PostStream by one caller, each reduced to its channel
\* operations.
VARIABLES
    chanOf,   \* the channel the caller passed to each call
    callPc,   \* where each call to doStream is
    status,   \* the status of the response each call got, 0 before
    pumps,    \* the number of goroutines each call has started
    pumpAt,   \* where the goroutine of each call is
    chans,    \* per channel: closed, who sent on it, who closed it
    crashed   \* a run-time panic ended the program

callsVars == << chanOf, callPc, status, pumps, pumpAt, chans, crashed >>

\* One Client value and the method calls made on it.
VARIABLES
    httpClient, \* the httpClient the Client interface value holds; its client field
    given,  \* the arguments of the calls to SetClient so far, in order
    via     \* per request method call that reached client.Do: the method, the
            \* *http.Client whose Do ran, and how many SetClient calls preceded

clientVars == << httpClient, given, via >>

vars == << streamVars, hdrVars, callsVars, clientVars >>

\* context.Canceled, and the read it ends once ctx has been cancelled
CtxErr == "context canceled"

CanceledReads == [line : {<<>>}, err : {CtxErr}]

NoRead == [line |-> <<>>, err |-> "none"]

NoEvent ==
    [Type |-> "none", StatusCode |-> 0, Headers |-> "none", Error |-> NilErr,
     Body |-> <<>>]

\* ---------------------------------------------------------------- channel
\* stream <- ev : blocks while the buffer is full (an unbuffered channel hands
\* the value to the receiver directly); panics on a closed channel.
\* A receive is pending on the channel: a goroutine is ranging over it, or
\* the caller ranges over it now that the call has returned.
ConsumerReady ==
    \/ consumerPc = "ranging"
    \/ consumerPc = "afterCall" /\ callerPc = "returned"

\* A send can proceed: the buffer has room or, on an unbuffered channel, a
\* receiver is waiting (a send on a closed channel proceeds to its panic).
CanSend ==
    \/ stream.closed
    \/ cap = 0 /\ ConsumerReady
    \/ cap > 0 /\ Len(stream.buf) < cap

ChanSend(ev) ==
    IF stream.closed
    THEN /\ panicked' = "send on closed channel"
         /\ UNCHANGED << stream, sent, received >>
    ELSE /\ sent' = Append(sent, ev)
         /\ IF cap = 0
            THEN received' = Append(received, ev) /\ UNCHANGED stream
            ELSE /\ stream' = [stream EXCEPT !.buf = Append(@, ev)]
                 /\ UNCHANGED received
         /\ UNCHANGED panicked

\* close(stream): panics on a closed channel.
ChanClose(who) ==
    IF stream.closed
    THEN /\ panicked' = "close of closed channel"
         /\ UNCHANGED << stream, closers >>
    ELSE /\ stream' = [stream EXCEPT !.closed = TRUE]
         /\ closers' = Append(closers, who)
         /\ UNCHANGED panicked

\* ------------------------------------------------------------- classifier
\* One pass of the loop body of doStream's goroutine for a line read without
\* error: skip (continue), or the event to send and whether the goroutine
\* returns after sending it.
Classify(raw) ==
    LET line == TrimSpace(raw)
        Ev(t, b, stop) == [skip |-> FALSE, Type |-> t, Body |-> b, stop |-> stop]
    IN  IF Len(line) = 0
        THEN [skip |-> TRUE, Type |-> "none", Body |-> <<>>, stop |-> FALSE]
        ELSE IF HasPrefix(line, PfxData)
        THEN IF TrimPrefix(line, PfxData) = Done
             THEN Ev(StreamResponseTypeEOF, <<>>, TRUE)
             ELSE Ev(StreamResponseTypeData, TrimPrefix(line, PfxData), FALSE)
        ELSE IF HasPrefix(line, PfxEvent)
        THEN Ev(StreamResponseTypeEvent, TrimPrefix(line, PfxEvent), FALSE)
        ELSE IF HasPrefix(line, PfxID)
        THEN Ev(StreamResponseTypeID, TrimPrefix(line, PfxID), FALSE)
        ELSE IF HasPrefix(line, PfxRetry)
        THEN Ev(StreamResponseTypeRetry, TrimPrefix(line, PfxRetry), FALSE)
        ELSE IF HasPrefix(line, PfxComment)
        THEN Ev(StreamResponseTypeComment, line, FALSE)
        ELSE Ev(StreamResponseTypeData, line, FALSE)

\* A StreamResponse built from the response of this call
StreamResponse(t, err, body) ==
    [Type |-> t, StatusCode |-> resp.StatusCode, Headers |-> resp.Header,
     Error |-> err, Body |-> body]

\* fmt.Errorf("unexpected status code: %d: %s", resp.StatusCode, respBody)
UnexpectedStatus(code, body) ==
    [kind |-> "unexpected status code", code |-> code, body |-> body]

\* fmt.Errorf("failed to read response body: %w", err)
StreamReadError(cause) == [kind |-> "failed to read response body", cause |-> cause]

\* ------------------------------------------------------- doStream, caller
\* doStream up to client.Do: a failure of buildRequestParams, of
\* NewRequestWithContext or of client.Do returns the error at once.  With a
\* nil body the call cannot get as far as client.Do (see OpenPanics).
OpenFails ==
    /\ panicked = "none"
    /\ UNCHANGED << hdrVars, callsVars, clientVars, callVars >>
    /\ callerPc = "start"
    /\ \E e \in PreflightErrs :
          /\ reqBody = "nil" => e.kind # "failed to send request"
          /\ ret' = e
    /\ callerPc' = "returned"
    /\ UNCHANGED << cap, stream, resp, respBody, bodyClosed, pumpPc, pend, after,
                    linesRead, readEnd, sent, closers, panicked, received,
                    sawClose >>

\* body == nil leaves bodyBuffer a nil *bytes.Buffer, which doStream passes to
\* NewRequestWithContext as a non-nil io.Reader: once the URL has parsed,
\* NewRequestWithContext calls Len() on it and the nil pointer dereference
\* panics in the caller's goroutine.
OpenPanics ==
    /\ panicked = "none"
    /\ UNCHANGED << hdrVars, callsVars, clientVars, callVars >>
    /\ callerPc = "start"
    /\ reqBody = "nil"
    /\ panicked' = "nil pointer dereference"
    /\ callerPc' = "panicked"
    /\ UNCHANGED << cap, stream, ret, resp, respBody, bodyClosed, pumpPc, pend,
                    after, linesRead, readEnd, sent, closers, received,
                    sawClose >>

\* client.Do returns a response.
OpenResponds ==
    /\ panicked = "none"
    /\ UNCHANGED << hdrVars, callsVars, clientVars, callVars >>
    /\ callerPc = "start"
    /\ reqBody # "nil"
    /\ \E r \in Responses : resp' = r
    /\ callerPc' = "resp"
    /\ UNCHANGED << cap, stream, ret, respBody, bodyClosed, pumpPc, pend, after,
                    linesRead, readEnd, sent, closers, panicked, received,
                    sawClose >>

\* ErrorStatus with the event of the non-200 branch typed as a data event.
ErrorStatusAsData ==
    /\ panicked = "none"
    /\ UNCHANGED << hdrVars, callsVars, clientVars, callVars >>
    /\ callerPc = "resp"
    /\ resp.StatusCode # StatusOK
    /\ \/ /\ ret' = [kind |-> "failed to read error response body"]
          /\ callerPc' = "deferClose"
          /\ UNCHANGED << respBody, pend >>
       \/ \E b \in ErrBodies :
            /\ respBody' = b
            /\ pend' = StreamResponse(StreamResponseTypeData,
                                      UnexpectedStatus(resp.StatusCode, b), b)
            /\ callerPc' = "send"
            /\ UNCHANGED ret
    /\ UNCHANGED << cap, stream, resp, bodyClosed, pumpPc, after, linesRead,
                    readEnd, sent, closers, panicked, received, sawClose >>

\* ErrorStatus with the terminal event built without the body that was read.
ErrorStatusNoBody ==
    /\ panicked = "none"
    /\ UNCHANGED << hdrVars, callsVars, clientVars, callVars >>
    /\ callerPc = "resp"
    /\ resp.StatusCode # StatusOK
    /\ \/ /\ ret' = [kind |-> "failed to read error response body"]
          /\ callerPc' = "deferClose"
          /\ UNCHANGED << respBody, pend >>
       \/ \E b \in ErrBodies :
            /\ respBody' = b
            /\ pend' = StreamResponse(StreamResponseTypeEOF,
                                      UnexpectedStatus(resp.StatusCode, b), <<>>)
            /\ callerPc' = "send"
            /\ UNCHANGED ret
    /\ UNCHANGED << cap, stream, resp, bodyClosed, pumpPc, after, linesRead,
                    readEnd, sent, closers, panicked, received, sawClose >>

\* Status other than 200: the two defers are registered, the body is read;
\* a failed read returns the error, otherwise the caller's goroutine goes on
\* to send the terminal event itself.
ErrorStatus ==
    /\ panicked = "none"
    /\ UNCHANGED << hdrVars, callsVars, clientVars, callVars >>
    /\ callerPc = "resp"
    /\ resp.StatusCode # StatusOK
    /\ \/ /\ ret' = [kind |-> "failed to read error response body"]
          /\ callerPc' = "deferClose"
          /\ UNCHANGED << respBody, pend >>
       \/ \E b \in ErrBodies :
            /\ respBody' = b
            /\ pend' = StreamResponse(StreamResponseTypeEOF,
                                      UnexpectedStatus(resp.StatusCode, b), b)
            /\ callerPc' = "send"
            /\ UNCHANGED ret
    /\ UNCHANGED << cap, stream, resp, bodyClosed, pumpPc, after, linesRead,
                    readEnd, sent, closers, panicked, received, sawClose >>

\* CallerSend followed by return nil instead of return err.
CallerSendReturnsNil ==
    /\ panicked = "none"
    /\ UNCHANGED << hdrVars, callsVars, clientVars, callVars >>
    /\ callerPc = "send"
    /\ CanSend
    /\ ChanSend(pend)
    /\ ret' = NilErr
    /\ callerPc' = "deferClose"
    /\ UNCHANGED << cap, resp, respBody, bodyClosed, pumpPc, pend, after,
                    linesRead, readEnd, closers, sawClose >>

\* stream <- StreamResponse{...} in the caller's goroutine, then return err.
CallerSend ==
    /\ panicked = "none"
    /\ UNCHANGED << hdrVars, callsVars, clientVars, callVars >>
    /\ callerPc = "send"
    /\ CanSend
    /\ ChanSend(pend)
    /\ ret' = pend.Error
    /\ callerPc' = "deferClose"
    /\ UNCHANGED << cap, resp, respBody, bodyClosed, pumpPc, pend, after,
                    linesRead, readEnd, closers, sawClose >>

\* defer close(stream) of the non-200 branch
CallerDeferClose ==
    /\ panicked = "none"
    /\ UNCHANGED << hdrVars, callsVars, clientVars, callVars >>
    /\ callerPc = "deferClose"
    /\ ChanClose("doStream")
    /\ callerPc' = "deferBody"
    /\ UNCHANGED << cap, ret, resp, respBody, bodyClosed, pumpPc, pend, after,
                    linesRead, readEnd, sent, received, sawClose >>

\* CallerDeferBody for a non-200 branch that returns without closing the body.
CallerDeferBodyLeaks ==
    /\ panicked = "none"
    /\ UNCHANGED << hdrVars, callsVars, clientVars, callVars >>
    /\ callerPc = "deferBody"
    /\ callerPc' = "returned"
    /\ UNCHANGED << cap, stream, ret, resp, respBody, bodyClosed, pumpPc, pend,
                    after, linesRead, readEnd, sent, closers, panicked,
                    received, sawClose >>

\* defer resp.Body.Close() of the non-200 branch; doStream returns.
CallerDeferBody ==
    /\ panicked = "none"
    /\ UNCHANGED << hdrVars, callsVars, clientVars, callVars >>
    /\ callerPc = "deferBody"
    /\ bodyClosed' = TRUE
    /\ callerPc' = "returned"
    /\ UNCHANGED << cap, stream, ret, resp, respBody, pumpPc, pend, after,
                    linesRead, readEnd, sent, closers, panicked, received,
                    sawClose >>

\* Status 200: go func() {...}() and return nil.
StartPump ==
    /\ panicked = "none"
    /\ UNCHANGED << hdrVars, callsVars, clientVars, callVars >>
    /\ callerPc = "resp"
    /\ resp.StatusCode = StatusOK
    /\ pumpPc' = "read"
    /\ ret' = NilErr
    /\ callerPc' = "returned"
    /\ UNCHANGED << cap, stream, resp, respBody, bodyClosed, pend, after,
                    linesRead, readEnd, sent, closers, panicked, received,
                    sawClose >>

\* OnReadError that sends the terminal event for io.EOF only and just breaks
\* on any other error (the loop of the earlier doStream).
OnReadErrorOnlyEOF(r) ==
    /\ readEnd' = r
    /\ UNCHANGED linesRead
    /\ IF r.err = "EOF"
       THEN /\ pend' = StreamResponse(StreamResponseTypeEOF,
                                      StreamReadError(r.err), <<>>)
            /\ after' = "deferClose"
            /\ pumpPc' = "send"
       ELSE /\ pumpPc' = "deferClose"
            /\ UNCHANGED << pend, after >>

\* OnReadError without the break: the loop reads again after the send.
OnReadErrorNoBreak(r) ==
    /\ readEnd' = r
    /\ pend' = StreamResponse(StreamResponseTypeEOF, StreamReadError(r.err), <<>>)
    /\ after' = "read"
    /\ pumpPc' = "send"
    /\ UNCHANGED linesRead

\* OnReadError for a goroutine that hands the bytes read before the error to
\* the consumer in the terminal event.
OnReadErrorKeepsTail(r) ==
    /\ readEnd' = r
    /\ pend' = StreamResponse(StreamResponseTypeEOF, StreamReadError(r.err),
                              TrimSpace(r.line))
    /\ after' = "deferClose"
    /\ pumpPc' = "send"
    /\ UNCHANGED linesRead

\* ---------------------------------------------------- doStream, goroutine
\* ReadBytes returned an error: send the terminal event carrying it, break.
OnReadError(r) ==
    /\ readEnd' = r
    /\ pend' = StreamResponse(StreamResponseTypeEOF, StreamReadError(r.err), <<>>)
    /\ after' = "deferClose"
    /\ pumpPc' = "send"
    /\ UNCHANGED linesRead

\* OnLine without the return after the sentinel's event.
OnLineNoReturn(raw) ==
    /\ linesRead' = Append(linesRead, raw)
    /\ UNCHANGED readEnd
    /\ LET c == Classify(raw)
       IN  IF c.skip
           THEN UNCHANGED << pend, after, pumpPc >>
           ELSE /\ pend' = StreamResponse(c.Type, NilErr, c.Body)
                /\ after' = "read"
                /\ pumpPc' = "send"

\* OnLine for a goroutine that matches the field name before it trims: a
\* line of a field name, a colon and white space is an event of that field
\* with an empty Body.
OnLineFieldBeforeTrim(raw) ==
    /\ linesRead' = Append(linesRead, raw)
    /\ UNCHANGED readEnd
    /\ LET c == Classify(raw)
           line == TrimSpace(raw)
           bare(pfx) == line = SubSeq(pfx, 1, Len(pfx) - 1)
           t == IF bare(PfxEvent) THEN StreamResponseTypeEvent
                ELSE IF bare(PfxID) THEN StreamResponseTypeID
                ELSE IF bare(PfxRetry) THEN StreamResponseTypeRetry
                ELSE c.Type
           b == IF bare(PfxData) \/ bare(PfxEvent) \/ bare(PfxID) \/ bare(PfxRetry)
                THEN <<>>
                ELSE c.Body
       IN  IF c.skip
           THEN UNCHANGED << pend, after, pumpPc >>
           ELSE /\ pend' = StreamResponse(t, NilErr, b)
                /\ after' = IF c.stop THEN "deferClose" ELSE "read"
                /\ pumpPc' = "send"

\* OnLine that strips the colon of a comment line like the other prefixes.
OnLineCommentStripped(raw) ==
    /\ linesRead' = Append(linesRead, raw)
    /\ UNCHANGED readEnd
    /\ LET c == Classify(raw)
           b == IF c.Type = StreamResponseTypeComment
                THEN TrimPrefix(c.Body, PfxComment)
                ELSE c.Body
       IN  IF c.skip
           THEN UNCHANGED << pend, after, pumpPc >>
           ELSE /\ pend' = StreamResponse(c.Type, NilErr, b)
                /\ after' = IF c.stop THEN "deferClose" ELSE "read"
                /\ pumpPc' = "send"

\* OnLine without the continue on an empty line: it is sent as a Data event.
OnLineNoSkip(raw) ==
    /\ linesRead' = Append(linesRead, raw)
    /\ UNCHANGED readEnd
    /\ LET c == Classify(raw)
       IN  /\ pend' = StreamResponse(IF c.skip THEN StreamResponseTypeData
                                               ELSE c.Type,
                                     NilErr, c.Body)
           /\ after' = IF c.stop THEN "deferClose" ELSE "read"
           /\ pumpPc' = "send"

\* ReadBytes returned a line: continue on an empty one, otherwise go to the
\* send of its event; after the sentinel's event the goroutine returns.
OnLine(raw) ==
    /\ linesRead' = Append(linesRead, raw)
    /\ UNCHANGED readEnd
    /\ LET c == Classify(raw)
       IN  IF c.skip
           THEN UNCHANGED << pend, after, pumpPc >>
           ELSE /\ pend' = StreamResponse(c.Type, NilErr, c.Body)
                /\ after' = IF c.stop THEN "deferClose" ELSE "read"
                /\ pumpPc' = "send"

\* One ReadBytes and the loop body up to the next channel send.
PumpRead ==
    /\ panicked = "none"
    /\ UNCHANGED << hdrVars, callsVars, clientVars, callVars >>
    /\ pumpPc = "read"
    /\ \E r \in ReadOutcomes \cup CanceledReads :
         /\ Len(linesRead) < MaxLines \/ r.err # "nil"
         /\ r.err = "nil" => r.line \in feed
         /\ r.err = CtxErr => ctxDone
         /\ IF r.err # "nil" THEN OnReadError(r) ELSE OnLine(r.line)
    /\ UNCHANGED << cap, stream, callerPc, ret, resp, respBody, bodyClosed, sent,
                    closers, panicked, received, sawClose >>

\* PumpSend for a goroutine that does not wait for room in the channel: the
\* event is dropped when the send cannot proceed at once.
PumpSendOrDrop ==
    /\ panicked = "none"
    /\ UNCHANGED << hdrVars, callsVars, clientVars, callVars >>
    /\ pumpPc = "send"
    /\ IF CanSend
       THEN ChanSend(pend)
       ELSE UNCHANGED << stream, sent, received, panicked >>
    /\ pumpPc' = after
    /\ UNCHANGED << cap, callerPc, ret, resp, respBody, bodyClosed, pend, after,
                    linesRead, readEnd, closers, sawClose >>

\* stream <- StreamResponse{...} in the goroutine
PumpSend ==
    /\ panicked = "none"
    /\ UNCHANGED << hdrVars, callsVars, clientVars, callVars >>
    /\ pumpPc = "send"
    /\ CanSend
    /\ ChanSend(pend)
    /\ pumpPc' = after
    /\ UNCHANGED << cap, callerPc, ret, resp, respBody, bodyClosed, pend, after,
                    linesRead, readEnd, closers, sawClose >>

\* PumpDeferClose for a goroutine that defers close(stream) only.
PumpDeferCloseOnly ==
    /\ panicked = "none"
    /\ UNCHANGED << hdrVars, callsVars, clientVars, callVars >>
    /\ pumpPc = "deferClose"
    /\ ChanClose("pump")
    /\ pumpPc' = "done"
    /\ UNCHANGED << cap, callerPc, ret, resp, respBody, bodyClosed, pend, after,
                    linesRead, readEnd, sent, received, sawClose >>

\* defer close(stream) of the goroutine
PumpDeferClose ==
    /\ panicked = "none"
    /\ UNCHANGED << hdrVars, callsVars, clientVars, callVars >>
    /\ pumpPc = "deferClose"
    /\ ChanClose("pump")
    /\ pumpPc' = "deferBody"
    /\ UNCHANGED << cap, callerPc, ret, resp, respBody, bodyClosed, pend, after,
                    linesRead, readEnd, sent, received, sawClose >>

\* PumpDeferBody with the channel closed a second time, as an explicit
\* close(stream) beside the deferred one would.
PumpDeferBodyClosesAgain ==
    /\ panicked = "none"
    /\ UNCHANGED << hdrVars, callsVars, clientVars, callVars >>
    /\ pumpPc = "deferBody"
    /\ ChanClose("pump")
    /\ bodyClosed' = TRUE
    /\ pumpPc' = "done"
    /\ UNCHANGED << cap, callerPc, ret, resp, respBody, pend, after, linesRead,
                    readEnd, sent, received, sawClose >>

\* defer resp.Body.Close() of the goroutine
PumpDeferBody ==
    /\ panicked = "none"
    /\ UNCHANGED << hdrVars, callsVars, clientVars, callVars >>
    /\ pumpPc = "deferBody"
    /\ bodyClosed' = TRUE
    /\ pumpPc' = "done"
    /\ UNCHANGED << cap, stream, callerPc, ret, resp, respBody, pend, after,
                    linesRead, readEnd, sent, closers, panicked, received,
                    sawClose >>

\* ---------------------------------------------------------------- consumer
\* The consumer takes a buffered event (an unbuffered hand-off is part of
\* the send).
Receive ==
    /\ panicked = "none"
    /\ UNCHANGED << hdrVars, callsVars, clientVars, callVars >>
    /\ ConsumerReady
    /\ stream.buf # <<>>
    /\ received' = Append(received, Head(stream.buf))
    /\ stream' = [stream EXCEPT !.buf = Tail(@)]
    /\ UNCHANGED << cap, callerPc, ret, resp, respBody, bodyClosed, pumpPc, pend,
                    after, linesRead, readEnd, sent, closers, panicked, sawClose >>

\* The consumer's receive reports the channel closed and drained.
ObserveClose ==
    /\ panicked = "none"
    /\ UNCHANGED << hdrVars, callsVars, clientVars, callVars >>
    /\ ConsumerReady
    /\ stream.buf = <<>>
    /\ stream.closed
    /\ ~sawClose
    /\ sawClose' = TRUE
    /\ UNCHANGED << cap, stream, callerPc, ret, resp, respBody, bodyClosed,
                    pumpPc, pend, after, linesRead, readEnd, sent, closers,
                    panicked, received >>

\* ------------------------------------------------------- request headers
\* src/headers.go
ClientRequestIDHeaderName == <<"X", "-", "R", "e", "q", "u", "e", "s", "t", "-", "I", "D">>
ClientSessionIDHeaderName == <<"X", "-", "S", "e", "s", "s", "i", "o", "n", "-", "I", "D">>

\* the header names doStream sets
HdrAccept == <<"A", "c", "c", "e", "p", "t">>
HdrCacheControl == <<"C", "a", "c", "h", "e", "-", "C", "o", "n", "t", "r", "o", "l">>
HdrConnection == <<"C", "o", "n", "n", "e", "c", "t", "i", "o", "n">>

LowerLetters ==
    <<"a", "b", "c", "d", "e", "f", "g", "h", "i", "j", "k", "l", "m", "n", "o",
      "p", "q", "r", "s", "t", "u", "v", "w", "x", "y", "z">>
UpperLetters ==
    <<"A", "B", "C", "D", "E", "F", "G", "H", "I", "J", "K", "L", "M", "N", "O",
      "P", "Q", "R", "S", "T", "U", "V", "W", "X", "Y", "Z">>

ToUpper(c) ==
    IF \E i \in 1..26 : LowerLetters[i] = c
    THEN UpperLetters[CHOOSE i \in 1..26 : LowerLetters[i] = c]
    ELSE c

ToLower(c) ==
    IF \E i \in 1..26 : UpperLetters[i] = c
    THEN LowerLetters[CHOOSE i \in 1..26 : UpperLetters[i] = c]
    ELSE c

\* the bytes of an HTTP token (a valid header field name)
TokenBytes ==
    {LowerLetters[i] : i \in 1..26} \cup {UpperLetters[i] : i \in 1..26}
    \cup {"0", "1", "2", "3", "4", "5", "6", "7", "8", "9"}
    \cup {"!", "#", "$", "%", "&", "*", "+", "-", ".", "^", "_", "|", "~"}

\* textproto.CanonicalMIMEHeaderKey, which Header.Add and Header.Set apply to
\* the key: the first letter and every letter after a hyphen in upper case,
\* the others in lower case; a key with a byte outside the token bytes is
\* left as it is.
CanonicalMIMEHeaderKey(k) ==
    IF \E i \in 1..Len(k) : k[i] \notin TokenBytes
    THEN k
    ELSE [i \in 1..Len(k) |->
            IF i = 1 \/ k[i - 1] = "-" THEN ToUpper(k[i]) ELSE ToLower(k[i])]

\* http.Header.Add
HeaderAdd(h, k, v) ==
    LET c == CanonicalMIMEHeaderKey(k)
    IN  [x \in DOMAIN h \cup {c} |->
            IF x = c
            THEN (IF c \in DOMAIN h THEN Append(h[c], v) ELSE <<v>>)
            ELSE h[x]]

\* http.Header.Set
HeaderSet(h, k, v) ==
    LET c == CanonicalMIMEHeaderKey(k)
    IN  [x \in DOMAIN h \cup {c} |-> IF x = c THEN <<v>> ELSE h[x]]

\* a Go map with no entry
EmptyMap == [x \in {} |-> ""]

\* m[k] = v on a Go map
MapPut(m, k, v) == [x \in DOMAIN m \cup {k} |-> IF x = k THEN v ELSE m[x]]

\* for k, v := range src { dst[k] = v }
MapCopy(dst, src) ==
    [x \in DOMAIN dst \cup DOMAIN src |-> IF x \in DOMAIN src THEN src[x] ELSE dst[x]]

\* The header map buildRequestParams returns for client headers h and
\* request r.
MergedHeaders(h, r) ==
    LET m1 == MapCopy(MapCopy(EmptyMap, h), r.Headers)
        m2 == IF r.ID # "" THEN MapPut(m1, ClientRequestIDHeaderName, r.ID) ELSE m1
    IN  IF r.SessionID # ""
        THEN MapPut(m2, ClientSessionIDHeaderName, r.SessionID)
        ELSE m2

\* Header names a client may be configured with and a request may override
ClientKeys ==
    { <<"a", "c", "c", "e", "p", "t">>,
      <<"X", "-", "F", "o", "o">>,
      <<"x", "-", "r", "e", "q", "u", "e", "s", "t", "-", "i", "d">>,
      <<"C", "O", "N", "N", "E", "C", "T", "I", "O", "N">> }

ReqKeys ==
    { <<"A", "c", "c", "e", "p", "t">>,
      <<"X", "-", "F", "o", "o">>,
      <<"x", "-", "f", "o", "o">>,
      <<"X", "-", "R", "e", "q", "u", "e", "s", "t", "-", "I", "D">>,
      <<"c", "a", "c", "h", "e", "-", "c", "o", "n", "t", "r", "o", "l">>,
      <<"x", "-", "s", "e", "s", "s", "i", "o", "n", "-", "i", "d">> }

\* maps defining at most MaxHeaders of the names of K, each with value v
HeaderMaps(K, v) ==
    { [k \in S |-> v] : S \in {T \in SUBSET K : Cardinality(T) <= MaxHeaders} }

\* buildRequestParams: the merged header map, or the url.JoinPath error
buildRequestParams ==
    /\ hdrPc = "build"
    /\ IF urlOK
       THEN /\ headers' = MergedHeaders(hHeaders, req)
            /\ todo' = DOMAIN headers'
            /\ hdrPc' = "add"
       ELSE /\ hdrPc' = "failed"
            /\ UNCHANGED << headers, todo >>
    /\ UNCHANGED << kind, hHeaders, req, urlOK, httpReqHeader, wire >>
    /\ UNCHANGED << streamVars, callsVars, clientVars >>

\* One iteration of for k, v := range headers { httpReq.Header.Add(k, v) }:
\* the order in which a Go map is ranged over is not specified.
AddHeader ==
    /\ hdrPc = "add"
    /\ \E k \in todo :
         /\ httpReqHeader' = HeaderAdd(httpReqHeader, k, headers[k])
         /\ todo' = todo \ {k}
    /\ UNCHANGED << kind, hHeaders, req, urlOK, hdrPc, headers, wire >>
    /\ UNCHANGED << streamVars, callsVars, clientVars >>

\* SetStreamHeaders with Header.Add in place of Header.Set.
SetStreamHeadersAdd ==
    /\ hdrPc = "add"
    /\ todo = {}
    /\ kind = "doStream"
    /\ httpReqHeader' =
         HeaderAdd(HeaderAdd(HeaderAdd(httpReqHeader,
                                       HdrAccept, "text/event-stream"),
                             HdrCacheControl, "no-cache"),
                   HdrConnection, "keep-alive")
    /\ hdrPc' = "do"
    /\ UNCHANGED << kind, hHeaders, req, urlOK, headers, todo, wire >>
    /\ UNCHANGED << streamVars, callsVars, clientVars >>

\* doStream after the loop: the three Header.Set calls
SetStreamHeaders ==
    /\ hdrPc = "add"
    /\ todo = {}
    /\ kind = "doStream"
    /\ httpReqHeader' =
         HeaderSet(HeaderSet(HeaderSet(httpReqHeader,
                                       HdrAccept, "text/event-stream"),
                             HdrCacheControl, "no-cache"),
                   HdrConnection, "keep-alive")
    /\ hdrPc' = "do"
    /\ UNCHANGED << kind, hHeaders, req, urlOK, headers, todo, wire >>
    /\ UNCHANGED << streamVars, callsVars, clientVars >>

\* do after the loop: nothing more is set
LoopDone ==
    /\ hdrPc = "add"
    /\ todo = {}
    /\ kind = "do"
    /\ hdrPc' = "do"
    /\ UNCHANGED << kind, hHeaders, req, urlOK, headers, todo, httpReqHeader, wire >>
    /\ UNCHANGED << streamVars, callsVars, clientVars >>

\* h.client.Do(httpReq): the request goes out with httpReq.Header
ClientDo ==
    /\ hdrPc = "do"
    /\ wire' = httpReqHeader
    /\ hdrPc' = "sent"
    /\ UNCHANGED << kind, hHeaders, req, urlOK, headers, todo, httpReqHeader >>
    /\ UNCHANGED << streamVars, callsVars, clientVars >>

\* The receiver gives the channel up: it receives nothing from now on.
ConsumerStops ==
    /\ panicked = "none"
    /\ consumerPc # "stopped"
    /\ consumerPc' = "stopped"
    /\ UNCHANGED << hdrVars, callsVars, clientVars, reqBody, ctxDone, feed, cap, stream, callerPc, ret,
                    resp, respBody, bodyClosed, pumpPc, pend, after, linesRead,
                    readEnd, sent, closers, panicked, received, sawClose >>

\* CancelCtx for a pump whose send also waits on ctx.Done() and gives up.
CancelCtxAbortsSend ==
    /\ panicked = "none"
    /\ resp # NoResp
    /\ ~ctxDone
    /\ ctxDone' = TRUE
    /\ pumpPc' = IF pumpPc = "send" THEN "deferClose" ELSE pumpPc
    /\ UNCHANGED << hdrVars, callsVars, clientVars, reqBody, consumerPc, feed, cap, stream, callerPc,
                    ret, resp, respBody, bodyClosed, pend, after, linesRead,
                    readEnd, sent, closers, panicked, received, sawClose >>

\* The caller cancels ctx while the response is being streamed: reads of the
\* body may fail from now on; no channel operation of doStream looks at ctx.
CancelCtx ==
    /\ panicked = "none"
    /\ resp # NoResp
    /\ ~ctxDone
    /\ ctxDone' = TRUE
    /\ UNCHANGED << hdrVars, callsVars, clientVars, reqBody, consumerPc, feed, cap, stream, callerPc,
                    ret, resp, respBody, bodyClosed, pumpPc, pend, after,
                    linesRead, readEnd, sent, closers, panicked, received,
                    sawClose >>

\* ------------------------------------------------- several streaming calls
Calls == 1..MaxCalls

\* the channels the caller has made; doStream makes none
Chans == 1..MaxCalls

NewChan == [closed |-> FALSE, senders |-> {}, closers |-> <<>>]

\* `stream <- ...` by call c on the channel it was given
SendOn(c) ==
    IF chans[chanOf[c]].closed
    THEN crashed' = "send on closed channel" /\ UNCHANGED chans
    ELSE /\ chans' = [chans EXCEPT ![chanOf[c]].senders = @ \cup {c}]
         /\ UNCHANGED crashed

\* close(stream) by call c on the channel it was given
CloseOn(c) ==
    IF chans[chanOf[c]].closed
    THEN crashed' = "close of closed channel" /\ UNCHANGED chans
    ELSE /\ chans' = [chans EXCEPT ![chanOf[c]].closed = TRUE,
                                   ![chanOf[c]].closers = Append(@, c)]
         /\ UNCHANGED crashed

\* doStream returns an error before it has a response.
CallOpenFails(c) ==
    /\ crashed = "none"
    /\ callPc[c] = "start"
    /\ callPc' = [callPc EXCEPT ![c] = "returned"]
    /\ UNCHANGED << streamVars, hdrVars, clientVars, chanOf, status, pumps, pumpAt, chans,
                    crashed >>

\* client.Do returns a response.
CallResponds(c) ==
    /\ crashed = "none"
    /\ callPc[c] = "start"
    /\ \E r \in Responses : status' = [status EXCEPT ![c] = r.StatusCode]
    /\ callPc' = [callPc EXCEPT ![c] = "resp"]
    /\ UNCHANGED << streamVars, hdrVars, clientVars, chanOf, pumps, pumpAt, chans, crashed >>

\* Status other than 200: the defers are registered and the body is read; on
\* a failed read doStream returns, else it goes on to send the event.
CallErrorStatus(c) ==
    /\ crashed = "none"
    /\ callPc[c] = "resp"
    /\ status[c] # StatusOK
    /\ \E to \in {"send", "deferClose"} : callPc' = [callPc EXCEPT ![c] = to]
    /\ UNCHANGED << streamVars, hdrVars, clientVars, chanOf, status, pumps, pumpAt, chans,
                    crashed >>

\* The send of the non-200 branch.
CallSends(c) ==
    /\ crashed = "none"
    /\ callPc[c] = "send"
    /\ SendOn(c)
    /\ callPc' = [callPc EXCEPT ![c] = "deferClose"]
    /\ UNCHANGED << streamVars, hdrVars, clientVars, chanOf, status, pumps, pumpAt >>

\* CallCloses for a non-200 branch that does not return but goes on to the
\* go statement.
CallClosesAndGoesOn(c) ==
    /\ crashed = "none"
    /\ callPc[c] = "deferClose"
    /\ CloseOn(c)
    /\ callPc' = [callPc EXCEPT ![c] = "returned"]
    /\ pumps' = [pumps EXCEPT ![c] = @ + 1]
    /\ pumpAt' = [pumpAt EXCEPT ![c] = "send"]
    /\ UNCHANGED << streamVars, hdrVars, clientVars, chanOf, status >>

\* The deferred close(stream) of the non-200 branch; doStream returns.
CallCloses(c) ==
    /\ crashed = "none"
    /\ callPc[c] = "deferClose"
    /\ CloseOn(c)
    /\ callPc' = [callPc EXCEPT ![c] = "returned"]
    /\ UNCHANGED << streamVars, hdrVars, clientVars, chanOf, status, pumps, pumpAt >>

\* Status 200: the go statement; doStream returns nil.
CallStartsPump(c) ==
    /\ crashed = "none"
    /\ callPc[c] = "resp"
    /\ status[c] = StatusOK
    /\ pumps' = [pumps EXCEPT ![c] = @ + 1]
    /\ pumpAt' = [pumpAt EXCEPT ![c] = "send"]
    /\ callPc' = [callPc EXCEPT ![c] = "returned"]
    /\ UNCHANGED << streamVars, hdrVars, clientVars, chanOf, status, chans, crashed >>

\* The goroutine sends the event of a line and goes on reading.
PumpSendsLine(c) ==
    /\ crashed = "none"
    /\ pumpAt[c] = "send"
    /\ SendOn(c)
    /\ pumpAt' = [pumpAt EXCEPT ![c] = "last"]
    /\ UNCHANGED << streamVars, hdrVars, clientVars, chanOf, callPc, status, pumps >>

\* The goroutine sends its terminal event (sentinel or read error).
PumpSendsEOF(c) ==
    /\ crashed = "none"
    /\ pumpAt[c] \in {"send", "last"}
    /\ SendOn(c)
    /\ pumpAt' = [pumpAt EXCEPT ![c] = "deferClose"]
    /\ UNCHANGED << streamVars, hdrVars, clientVars, chanOf, callPc, status, pumps >>

\* The deferred close(stream) of the goroutine.
PumpCloses(c) ==
    /\ crashed = "none"
    /\ pumpAt[c] = "deferClose"
    /\ CloseOn(c)
    /\ pumpAt' = [pumpAt EXCEPT ![c] = "done"]
    /\ UNCHANGED << streamVars, hdrVars, clientVars, chanOf, callPc, status, pumps >>

OpenFailsOfSome == \E c \in Calls : CallOpenFails(c)
RespondsToSome == \E c \in Calls : CallResponds(c)
ErrorStatusOfSome == \E c \in Calls : CallErrorStatus(c)
SendBySome == \E c \in Calls : CallSends(c)
CloseBySome == \E c \in Calls : CallCloses(c)
StartPumpOfSome == \E c \in Calls : CallStartsPump(c)
LineOfSomePump == \E c \in Calls : PumpSendsLine(c)
EOFOfSomePump == \E c \in Calls : PumpSendsEOF(c)
CloseBySomePump == \E c \in Calls : PumpCloses(c)

CallsIdle ==
    /\ chanOf = [c \in Calls |-> 1]
    /\ callPc = [c \in Calls |-> "idle"]
    /\ status = [c \in Calls |-> 0]
    /\ pumps = [c \in Calls |-> 0]
    /\ pumpAt = [c \in Calls |-> "none"]
    /\ chans = [ch \in Chans |-> NewChan]
    /\ crashed = "none"

\* The caller passes each call a channel it made: one per call, or the same
\* one to several calls.
CallsInit ==
    /\ chanOf \in [Calls -> Chans]
    /\ callPc = [c \in Calls |-> "start"]
    /\ status = [c \in Calls |-> 0]
    /\ pumps = [c \in Calls |-> 0]
    /\ pumpAt = [c \in Calls |-> "none"]
    /\ chans = [ch \in Chans |-> NewChan]
    /\ crashed = "none"

\* ------------------------------------------------------ the Client value
\* http.DefaultClient, and the clients a caller may pass to SetClient
DefaultClient == "http.DefaultClient"

OtherClients == {"c1", "c2"}

\* the methods of Client that send a request
Methods == {"Get", "Post", "Put", "Patch", "Delete", "GetStream", "PostStream"}

\* NewHttpClient: the httpClient value returned as a Client
NewHttpClient == [client |-> DefaultClient]

\* SetClient has a value receiver: it runs on a copy of the httpClient the
\* interface value holds, assigns the copy's client field, and the copy is
\* gone when it returns.
SetClient ==
    /\ Len(given) + Len(via) < MaxOps
    /\ \E c \in OtherClients :
         LET receiver == [httpClient EXCEPT !.client = c]
         IN  /\ given' = Append(given, c)
             /\ httpClient' = httpClient
    /\ UNCHANGED << streamVars, hdrVars, callsVars, via >>

\* A call of one of the request methods gets as far as h.client.Do(httpReq);
\* these methods have value receivers too and read the client field of their
\* copy of h.
CallDo ==
    /\ Len(given) + Len(via) < MaxOps
    /\ \E m \in Methods :
         via' = Append(via, [method |-> m, client |-> httpClient.client,
                             after |-> Len(given)])
    /\ UNCHANGED << streamVars, hdrVars, callsVars, httpClient, given >>

ClientIdle ==
    /\ httpClient = NewHttpClient
    /\ given = <<>>
    /\ via = <<>>

\* no request is being built (the state of the header variables under Spec)
HdrIdle ==
    /\ kind = "doStream"
    /\ hHeaders = EmptyMap
    /\ req = [ID |-> "", SessionID |-> "", Headers |-> EmptyMap]
    /\ urlOK = TRUE
    /\ hdrPc = "idle"
    /\ headers = EmptyMap
    /\ todo = {}
    /\ httpReqHeader = EmptyMap
    /\ wire = EmptyMap

HdrInit ==
    /\ kind \in {"do", "doStream"}
    /\ hHeaders \in HeaderMaps(ClientKeys, "c")
    /\ req \in [ID : {"", "i"}, SessionID : {"", "s"},
                Headers : HeaderMaps(ReqKeys, "r")]
    /\ urlOK \in BOOLEAN
    /\ hdrPc = "build"
    /\ headers = EmptyMap
    /\ todo = {}
    /\ httpReqHeader = EmptyMap
    /\ wire = EmptyMap

\* no streaming call is running (the state of the stream variables under
\* SpecHeaders)
StreamIdle ==
    /\ reqBody = "nil"
    /\ consumerPc = "stopped"
    /\ ctxDone = FALSE
    /\ feed = {}
    /\ cap = 0
    /\ stream = [buf |-> <<>>, closed |-> FALSE]
    /\ callerPc = "idle"
    /\ ret = NilErr
    /\ resp = NoResp
    /\ respBody = <<>>
    /\ bodyClosed = FALSE
    /\ pumpPc = "idle"
    /\ pend = NoEvent
    /\ after = "none"
    /\ linesRead = <<>>
    /\ readEnd = NoRead
    /\ sent = <<>>
    /\ closers = <<>>
    /\ panicked = "none"
    /\ received = <<>>
    /\ sawClose = FALSE

StreamInit ==
    /\ reqBody \in {"nil", "bytes"}
    /\ consumerPc = "ranging"
    /\ ctxDone = FALSE
    /\ feed = RawLines
    /\ cap \in 0..MaxCap
    /\ stream = [buf |-> <<>>, closed |-> FALSE]
    /\ callerPc = "start"
    /\ ret = NilErr
    /\ resp = NoResp
    /\ respBody = <<>>
    /\ bodyClosed = FALSE
    /\ pumpPc = "idle"
    /\ pend = NoEvent
    /\ after = "none"
    /\ linesRead = <<>>
    /\ readEnd = NoRead
    /\ sent = <<>>
    /\ closers = <<>>
    /\ panicked = "none"
    /\ received = <<>>
    /\ sawClose = FALSE

StreamNext ==
    \/ OpenFails
    \/ OpenPanics
    \/ OpenResponds
    \/ ErrorStatus
    \/ CallerSend
    \/ CallerDeferClose
    \/ CallerDeferBody
    \/ StartPump
    \/ PumpRead
    \/ PumpSend
    \/ PumpDeferClose
    \/ PumpDeferBody
    \/ Receive
    \/ ObserveClose


Init == StreamInit /\ HdrIdle /\ CallsIdle /\ ClientIdle

Next == StreamNext

\* one streaming call
Spec == Init /\ [][Next]_vars

InitHeaders == HdrInit /\ StreamIdle /\ CallsIdle /\ ClientIdle

NextHeaders ==
    \/ buildRequestParams
    \/ AddHeader
    \/ SetStreamHeaders
    \/ LoopDone
    \/ ClientDo

\* the header set of one request
SpecHeaders == InitHeaders /\ [][NextHeaders]_vars

\* One call to GetStream or PostStream whose receiver is either a goroutine
\* already ranging over the channel or the caller itself after the call, may
\* give the channel up at any time, and whose caller may cancel ctx.
FewLines ==
    { <<"d", "a", "t", "a", ":", " ", "h", "i", "\n">>,
      <<"d", "a", "t", "a", ":", " ", "[", "D", "O", "N", "E", "]", "\n">>,
      <<"\n">> }

InitConsumer ==
    /\ reqBody \in {"nil", "bytes"}
    /\ consumerPc \in {"ranging", "afterCall"}
    /\ ctxDone = FALSE
    /\ feed = FewLines
    /\ cap \in 0..MaxCap
    /\ stream = [buf |-> <<>>, closed |-> FALSE]
    /\ callerPc = "start"
    /\ ret = NilErr
    /\ resp = NoResp
    /\ respBody = <<>>
    /\ bodyClosed = FALSE
    /\ pumpPc = "idle"
    /\ pend = NoEvent
    /\ after = "none"
    /\ linesRead = <<>>
    /\ readEnd = NoRead
    /\ sent = <<>>
    /\ closers = <<>>
    /\ panicked = "none"
    /\ received = <<>>
    /\ sawClose = FALSE
    /\ HdrIdle
    /\ CallsIdle
    /\ ClientIdle

NextConsumer ==
    \/ OpenFails
    \/ OpenPanics
    \/ OpenResponds
    \/ ErrorStatus
    \/ CallerSend
    \/ CallerDeferClose
    \/ CallerDeferBody
    \/ StartPump
    \/ PumpRead
    \/ PumpSend
    \/ PumpDeferClose
    \/ PumpDeferBody
    \/ Receive
    \/ ObserveClose
    \/ ConsumerStops
    \/ CancelCtx

\* Calls to PostStream made by one caller, in any interleaving.
InitCalls == CallsInit /\ StreamIdle /\ HdrIdle /\ ClientIdle

NextCalls ==
    \/ OpenFailsOfSome
    \/ RespondsToSome
    \/ ErrorStatusOfSome
    \/ SendBySome
    \/ CloseBySome
    \/ StartPumpOfSome
    \/ LineOfSomePump
    \/ EOFOfSomePump
    \/ CloseBySomePump

SpecCalls == InitCalls /\ [][NextCalls]_vars

\* One Client from NewHttpClient with calls to SetClient and to the request
\* methods in any order.
InitClient == ClientIdle /\ StreamIdle /\ HdrIdle /\ CallsIdle

NextClient ==
    \/ SetClient
    \/ CallDo

SpecClient == InitClient /\ [][NextClient]_vars

SpecConsumer == InitConsumer /\ [][NextConsumer]_vars

\* ------------------------------------ doStream of src/unnamed/part_001
\* The earlier doStream: the same code up to client.Do and the same go
\* statement and defers in the goroutine; StreamResponse has no Type, the
\* non-200 branch defers only resp.Body.Close(), and the goroutine sends the
\* raw line.
Part001Response(err, b) ==
    [Type |-> "none", StatusCode |-> resp.StatusCode, Headers |-> resp.Header,
     Error |-> err, Body |-> b]

\* fmt.Errorf("unexpected status code: %d", resp.StatusCode)
Part001UnexpectedStatus(code) == [kind |-> "unexpected status code", code |-> code]

\* Status other than 200: resp.Body.Close() is deferred and the body is read;
\* on a failed read doStream returns, else it goes on to send the event.
Part001ErrorStatus ==
    /\ panicked = "none"
    /\ UNCHANGED << hdrVars, callsVars, clientVars, callVars >>
    /\ callerPc = "resp"
    /\ resp.StatusCode # StatusOK
    /\ \/ /\ ret' = [kind |-> "failed to read error response body"]
          /\ callerPc' = "deferBody"
          /\ UNCHANGED << respBody, pend >>
       \/ \E b \in ErrBodies :
            /\ respBody' = b
            /\ pend' = Part001Response(Part001UnexpectedStatus(resp.StatusCode), b)
            /\ callerPc' = "send"
            /\ UNCHANGED ret
    /\ UNCHANGED << cap, stream, resp, bodyClosed, pumpPc, after, linesRead,
                    readEnd, sent, closers, panicked, received, sawClose >>

\* The send of the non-200 branch, then the return of the error.
Part001CallerSend ==
    /\ panicked = "none"
    /\ UNCHANGED << hdrVars, callsVars, clientVars, callVars >>
    /\ callerPc = "send"
    /\ CanSend
    /\ ChanSend(pend)
    /\ ret' = pend.Error
    /\ callerPc' = "deferBody"
    /\ UNCHANGED << cap, resp, respBody, bodyClosed, pumpPc, pend, after,
                    linesRead, readEnd, closers, sawClose >>

\* One ReadBytes and the loop body up to the next channel send: on io.EOF
\* the terminal event is sent before the break, on any other error the loop
\* breaks at once; a line is sent as read.
Part001PumpRead ==
    /\ panicked = "none"
    /\ UNCHANGED << hdrVars, callsVars, clientVars, callVars >>
    /\ pumpPc = "read"
    /\ \E r \in ReadOutcomes \cup CanceledReads :
         /\ Len(linesRead) < MaxLines \/ r.err # "nil"
         /\ r.err = "nil" => r.line \in feed
         /\ r.err = CtxErr => ctxDone
         /\ IF r.err = "nil"
            THEN /\ linesRead' = Append(linesRead, r.line)
                 /\ pend' = Part001Response(NilErr, r.line)
                 /\ after' = "read"
                 /\ pumpPc' = "send"
                 /\ UNCHANGED readEnd
            ELSE /\ readEnd' = r
                 /\ UNCHANGED linesRead
                 /\ IF r.err = "EOF"
                    THEN /\ pend' = Part001Response(StreamReadError(r.err), <<>>)
                         /\ after' = "deferClose"
                         /\ pumpPc' = "send"
                    ELSE /\ pumpPc' = "deferClose"
                         /\ UNCHANGED << pend, after >>
    /\ UNCHANGED << cap, stream, callerPc, ret, resp, respBody, bodyClosed, sent,
                    closers, panicked, received, sawClose >>

NextPart001 ==
    \/ OpenFails
    \/ OpenPanics
    \/ OpenResponds
    \/ Part001ErrorStatus
    \/ Part001CallerSend
    \/ CallerDeferBody
    \/ StartPump
    \/ Part001PumpRead
    \/ PumpSend
    \/ PumpDeferClose
    \/ PumpDeferBody
    \/ Receive
    \/ ObserveClose
    \/ CancelCtx

SpecPart001 == InitConsumer /\ [][NextPart001]_vars

\* The same call under a scheduler that runs every goroutine that can take a
\* step: doStream reaches its go statement, the goroutine reads, sends when
\* the channel accepts the event, and runs its defers; a receiver that is
\* receiving takes what the channel holds.
SpecFair ==
    /\ SpecConsumer
    /\ WF_vars(StartPump)
    /\ WF_vars(PumpRead)
    /\ WF_vars(PumpSend)
    /\ WF_vars(PumpDeferClose)
    /\ WF_vars(PumpDeferBody)
    /\ WF_vars(Receive)

\* ================================================================= claims
\* the response of the call, once there is one
HasResp == resp # NoResp
Non200 == HasResp /\ resp.StatusCode # StatusOK
Is200 == HasResp /\ resp.StatusCode = StatusOK

\* the events sent so far followed by the one the pump is about to send
Outgoing == IF pumpPc = "send" THEN Append(sent, pend) ELSE sent

\* positions of the EndOfStream events of a sequence of events
EOFAt(evs) == {i \in 1..Len(evs) : evs[i].Type = StreamResponseTypeEOF}

\* C1: whenever a response was received the stream channel is closed at
\* most once, and exactly once when the call has ended; only doStream's
\* non-200 branch or its goroutine closes it (the consumer never does), and
\* no send or close is attempted on the closed channel (no panic).
C1_ClosedOnceByProducer ==
    /\ HasResp => panicked = "none"
    /\ Len(closers) <= 1
    /\ stream.closed <=> Len(closers) = 1
    /\ \A i \in 1..Len(closers) :
         closers[i] = (IF Non200 THEN "doStream" ELSE "pump")
    /\ stream.closed => HasResp
    /\ (Non200 /\ callerPc \in {"deferBody", "returned"}) => stream.closed
    /\ pumpPc \in {"deferBody", "done"} => stream.closed
    /\ stream.closed =>
         /\ callerPc \in {"deferBody", "returned"}
         /\ pumpPc \in {"idle", "deferBody", "done"}
         /\ Len(stream.buf) + Len(received) = Len(sent)

\* C1 witness: a pump that read two lines and then a clean EOF on an
\* unbuffered channel has closed it, and the consumer saw the closure.
C1_Witness ==
    /\ pumpPc = "done"
    /\ cap = 0
    /\ closers = <<"pump">>
    /\ readEnd.err = "EOF"
    /\ Len(sent) = 3
    /\ sawClose

\* C2 as stated: after a non-200 open exactly one event was sent, an
\* EndOfStream event with the whole body and a non-nil error, the channel is
\* closed and no pump runs.
C2_Original ==
    (Non200 /\ callerPc = "returned") =>
        /\ Len(sent) = 1
        /\ sent[1].Type = StreamResponseTypeEOF
        /\ sent[1].Body = respBody
        /\ sent[1].Error # NilErr
        /\ stream.closed
        /\ pumpPc = "idle"

\* C2 amended: after a non-200 open whose body was read, exactly one event
\* was sent, an EndOfStream event with the whole body and a non-nil error;
\* when reading the body failed no event was sent and the read error is
\* returned. Either way the channel is closed, after the send, and no pump
\* is started: no line is read and no other event is sent.
C2_Amended ==
    Non200 =>
        /\ pumpPc = "idle"
        /\ linesRead = <<>> /\ readEnd = NoRead
        /\ Len(sent) <= 1
        /\ \A i \in 1..Len(sent) :
             sent[i] = [Type |-> StreamResponseTypeEOF,
                        StatusCode |-> resp.StatusCode,
                        Headers |-> resp.Header,
                        Error |-> UnexpectedStatus(resp.StatusCode, respBody),
                        Body |-> respBody]
        /\ callerPc \in {"deferClose", "deferBody", "returned"} =>
             IF ret.kind = "failed to read error response body"
             THEN sent = <<>>
             ELSE Len(sent) = 1
        /\ callerPc = "returned" => stream.closed
        /\ stream.closed => callerPc \in {"deferBody", "returned"}

\* C2 witness: status 500 with body "server error": the consumer received
\* the one event and saw the channel closed.
C2_Witness ==
    /\ callerPc = "returned"
    /\ resp.StatusCode = 500
    /\ Len(received) = 1
    /\ received[1].Type = StreamResponseTypeEOF
    /\ received[1].Body = <<"s", "e", "r", "v", "e", "r", " ", "e", "r", "r", "o", "r">>
    /\ received[1].Error # NilErr
    /\ sawClose

\* C3 as stated: the opening call of a non-200 stream returns no error.
C3_Original == (Non200 /\ callerPc = "returned") => ret = NilErr

\* C3 amended: the opening call of a non-200 stream returns a non-nil error:
\* the unexpected-status error it also delivered in the terminal event, or
\* the error of reading the body when no event was delivered.
C3_Amended ==
    (Non200 /\ callerPc = "returned") =>
        /\ ret # NilErr
        /\ IF sent = <<>>
           THEN ret.kind = "failed to read error response body"
           ELSE /\ ret = sent[1].Error
                /\ ret = UnexpectedStatus(resp.StatusCode, respBody)

\* C3 witness: status 500, body "server error", the call has returned its
\* error and the event is delivered.
C3_Witness ==
    /\ callerPc = "returned"
    /\ resp.StatusCode = 500
    /\ respBody = <<"s", "e", "r", "v", "e", "r", " ", "e", "r", "r", "o", "r">>
    /\ Len(received) = 1
    /\ ret = received[1].Error

\* ---- lines, stated without the operators of the loop
IsBlank(raw) == \A i \in 1..Len(raw) : raw[i] \in WhiteSpace

\* the line without its leading and trailing white space: raw = a \o t \o b
\* with a and b white space and t neither starting nor ending with any
Trimmed(raw) ==
    LET n == Len(raw)
        Fits(i, j) ==
            /\ i <= j + 1
            /\ \A k \in 1..(i - 1) : raw[k] \in WhiteSpace
            /\ \A k \in (j + 1)..n : raw[k] \in WhiteSpace
            /\ i <= j => (raw[i] \notin WhiteSpace /\ raw[j] \notin WhiteSpace)
        p == CHOOSE p \in (1..(n + 1)) \X (0..n) : Fits(p[1], p[2])
    IN  SubSeq(raw, p[1], p[2])

Suffixes(t) == {SubSeq(t, i, Len(t)) : i \in 1..(Len(t) + 1)}
StartsWith(t, pfx) == \E q \in Suffixes(t) : t = pfx \o q
Without(t, pfx) == CHOOSE q \in Suffixes(t) : t = pfx \o q

SentinelLine == <<"d", "a", "t", "a", ":", " ", "[", "D", "O", "N", "E", "]">>
IsSentinel(raw) == Trimmed(raw) = SentinelLine

\* the rule table of the classifier: kind and body of a trimmed line
RuleKind(t) ==
    IF StartsWith(t, <<"d", "a", "t", "a", ":", " ">>) THEN "DATA"
    ELSE IF StartsWith(t, <<"e", "v", "e", "n", "t", ":", " ">>) THEN "EVENT"
    ELSE IF StartsWith(t, <<"i", "d", ":", " ">>) THEN "ID"
    ELSE IF StartsWith(t, <<"r", "e", "t", "r", "y", ":", " ">>) THEN "RETRY"
    ELSE IF StartsWith(t, <<":">>) THEN "COMMENT"
    ELSE "DATA"

RuleBody(t) ==
    IF StartsWith(t, <<"d", "a", "t", "a", ":", " ">>)
    THEN Without(t, <<"d", "a", "t", "a", ":", " ">>)
    ELSE IF StartsWith(t, <<"e", "v", "e", "n", "t", ":", " ">>)
    THEN Without(t, <<"e", "v", "e", "n", "t", ":", " ">>)
    ELSE IF StartsWith(t, <<"i", "d", ":", " ">>)
    THEN Without(t, <<"i", "d", ":", " ">>)
    ELSE IF StartsWith(t, <<"r", "e", "t", "r", "y", ":", " ">>)
    THEN Without(t, <<"r", "e", "t", "r", "y", ":", " ">>)
    ELSE t

\* how many of the prefix rules a trimmed line matches
RulesMatching(t) ==
    Cardinality({pfx \in {<<"d", "a", "t", "a", ":", " ">>,
                          <<"e", "v", "e", "n", "t", ":", " ">>,
                          <<"i", "d", ":", " ">>,
                          <<"r", "e", "t", "r", "y", ":", " ">>,
                          <<":">>} : StartsWith(t, pfx)})

\* the events of the rule table for the lines read, in order: none for an
\* empty line and none for the sentinel
RECURSIVE RuleEvents(_)
RuleEvents(lines) ==
    IF lines = <<>> THEN <<>>
    ELSE LET t == Trimmed(Head(lines))
         IN  (IF t = <<>> \/ t = SentinelLine
              THEN <<>>
              ELSE << [Type |-> RuleKind(t), StatusCode |-> resp.StatusCode,
                       Headers |-> resp.Header, Error |-> NilErr,
                       Body |-> RuleBody(t)] >>)
             \o RuleEvents(Tail(lines))

NonTerminal(evs) == SelectSeq(evs, LAMBDA e : e.Type # StreamResponseTypeEOF)

IsPrefixOf(a, b) == Len(a) <= Len(b) /\ SubSeq(b, 1, Len(a)) = a

\* C4: once a line that trims to "data: [DONE]" was read, it is the last line
\* read (nothing after it in the body is read or sent), exactly one
\* EndOfStream event with nil Error is sent or about to be sent, it is the last
\* event, the sentinel was not delivered as a Data event, and the channel is
\* closed when the pump is done.
C4_SentinelEndsStream ==
    \A i \in 1..Len(linesRead) :
        IsSentinel(linesRead[i]) =>
            /\ i = Len(linesRead)
            /\ readEnd = NoRead
            /\ pumpPc \in {"send", "deferClose", "deferBody", "done"}
            /\ Outgoing # <<>>
            /\ Outgoing[Len(Outgoing)] =
                 [Type |-> "EOF", StatusCode |-> resp.StatusCode,
                  Headers |-> resp.Header, Error |-> NilErr, Body |-> <<>>]
            /\ EOFAt(Outgoing) = {Len(Outgoing)}
            /\ Len(NonTerminal(Outgoing)) = Len(RuleEvents(linesRead))
            /\ \A j \in 1..Len(Outgoing) :
                 Outgoing[j].Type = "DATA" =>
                     Outgoing[j].Body \notin {SentinelLine, <<"[", "D", "O", "N", "E", "]">>}
            /\ pumpPc = "done" => (stream.closed /\ sent = Outgoing)

\* C4 witness: a Data line, then the sentinel wrapped in white space; the
\* consumer got Data, EndOfStream and the closure.
C4_Witness ==
    /\ pumpPc = "done"
    /\ Len(linesRead) = 2
    /\ linesRead[2] = <<" ", "d", "a", "t", "a", ":", " ", "[", "D", "O", "N", "E", "]", "\r", "\n">>
    /\ Len(received) = 2
    /\ received[1].Type = "DATA"
    /\ received[2].Type = "EOF"
    /\ sawClose

\* C5: once a read of the body failed after k lines, the opening call has
\* returned nil, and the events sent (with the one about to be sent) are the
\* events of the k lines in order followed by exactly one EndOfStream event
\* whose Error wraps the read error; the consumer receives them in that order
\* and sees the channel closed only after all of them.
C5_ReadFailure ==
    readEnd # NoRead =>
        /\ callerPc = "returned" /\ ret = NilErr
        /\ Outgoing = RuleEvents(linesRead) \o
             << [Type |-> "EOF", StatusCode |-> resp.StatusCode,
                 Headers |-> resp.Header,
                 Error |-> [kind |-> "failed to read response body",
                            cause |-> readEnd.err],
                 Body |-> <<>>] >>
        /\ readEnd.err \in ReadErrs
        /\ IsPrefixOf(received, sent)
        /\ stream.closed => sent = Outgoing
        /\ sawClose => received = Outgoing
        /\ pumpPc = "done" => stream.closed

\* C5 witness: the connection drops after two Data lines; the consumer got
\* the two Data events, the EndOfStream event with the error, and the closure.
C5_Witness ==
    /\ readEnd.err = "connection reset"
    /\ Len(linesRead) = 2
    /\ Len(received) = 3
    /\ received[1].Type = "DATA" /\ received[2].Type = "DATA"
    /\ received[3].Type = "EOF" /\ received[3].Error # NilErr
    /\ sawClose

\* C6: on a 200 stream an EndOfStream event is only ever the last event sent
\* and nothing is about to be sent after it; once a terminal condition was
\* met (sentinel read, read failure or EOF) there is exactly one, and the
\* channel is closed only after it was sent.
C6_ExactlyOneEOFLast ==
    Is200 =>
        /\ EOFAt(Outgoing) \subseteq {Len(Outgoing)}
        /\ (readEnd # NoRead \/ \E i \in 1..Len(linesRead) : IsSentinel(linesRead[i]))
             => EOFAt(Outgoing) = {Len(Outgoing)}
        /\ (stream.closed \/ pumpPc \in {"deferClose", "deferBody", "done"})
             => (sent # <<>> /\ EOFAt(sent) = {Len(sent)})

\* C6 witness: a clean EOF after one event; the pump is done.
C6_Witness ==
    /\ pumpPc = "done"
    /\ readEnd = [line |-> <<>>, err |-> "EOF"]
    /\ Len(sent) = 2
    /\ sent[2].Type = "EOF"

\* C7: the events other than EndOfStream that were sent or are about to be
\* sent are exactly the events the rule table gives for the non-empty,
\* non-sentinel trimmed lines read, one per line and in order; and no
\* trimmed line matches two prefix rules.
C7_Classification ==
    Is200 =>
        /\ NonTerminal(Outgoing) = RuleEvents(linesRead)
        /\ \A i \in 1..Len(linesRead) : RulesMatching(Trimmed(linesRead[i])) <= 1

\* C7 witness: a comment line and an event line were delivered: Comment with
\* the colon kept, Event with the prefix stripped.
C7_Witness ==
    /\ pumpPc = "done"
    /\ Len(received) = 3
    /\ received[1].Type = "COMMENT"
    /\ received[1].Body = <<":", " ", "k", "a">>
    /\ received[2].Type = "EVENT"
    /\ received[2].Body = <<"e">>

\* C8: the step that reads a line empty after trimming sends nothing, leaves
\* the channel as it is (not closed) and the pump at the top of its loop.
C8_EmptyLineSkipped ==
    [][ (linesRead' # linesRead /\ IsBlank(linesRead'[Len(linesRead')])) =>
          /\ pumpPc = "read" /\ pumpPc' = "read"
          /\ sent' = sent
          /\ pend' = pend
          /\ stream' = stream
          /\ closers' = closers
          /\ readEnd' = readEnd ]_vars

\* C8 witness: an empty line and a white-space-only line were read; nothing
\* was sent, the channel is open and the pump reads on.
C8_Witness ==
    /\ Len(linesRead) = 2
    /\ linesRead[1] = <<"\n">>
    /\ linesRead[2] = <<" ", "\t", "\r", "\n">>
    /\ pumpPc = "read"
    /\ sent = <<>>
    /\ ~stream.closed

\* ---- header names, compared as HTTP compares them (without letter case)
EqualFold(a, b) ==
    /\ Len(a) = Len(b)
    /\ \A i \in 1..Len(a) : ToLower(a[i]) = ToLower(b[i])

\* every value the request on the wire carries for header name n
WireValues(n) ==
    UNION { {wire[k][i] : i \in 1..Len(wire[k])} :
            k \in {x \in DOMAIN wire : EqualFold(x, n)} }

\* how many values the request on the wire carries for header name n
WireCount(n) ==
    LET ks == {k \in DOMAIN wire : EqualFold(k, n)}
        RECURSIVE Sum(_)
        Sum(S) == IF S = {} THEN 0
                  ELSE LET k == CHOOSE k \in S : TRUE
                       IN  Len(wire[k]) + Sum(S \ {k})
    IN  Sum(ks)

\* the three headers of a streaming request and their values
StreamHeaderNames ==
    { <<"a", "c", "c", "e", "p", "t">>,
      <<"c", "a", "c", "h", "e", "-", "c", "o", "n", "t", "r", "o", "l">>,
      <<"c", "o", "n", "n", "e", "c", "t", "i", "o", "n">> }

StreamHeaderValue(n) ==
    IF n = <<"a", "c", "c", "e", "p", "t">> THEN "text/event-stream"
    ELSE IF n = <<"c", "o", "n", "n", "e", "c", "t", "i", "o", "n">> THEN "keep-alive"
    ELSE "no-cache"

\* C9: the request a streaming call sends carries exactly one value for
\* Accept, Cache-Control and Connection, under whatever letter case the
\* client defaults and the request overrides named them: text/event-stream,
\* no-cache and keep-alive.
C9_StreamHeadersForced ==
    (hdrPc = "sent" /\ kind = "doStream") =>
        \A n \in StreamHeaderNames :
            /\ WireCount(n) = 1
            /\ WireValues(n) = {StreamHeaderValue(n)}

\* C9 witness: a streaming request went out whose client defaults name
\* "accept" and "CONNECTION" and whose overrides name "Accept" and
\* "cache-control".
C9_Witness ==
    /\ hdrPc = "sent"
    /\ kind = "doStream"
    /\ DOMAIN hHeaders = { <<"a", "c", "c", "e", "p", "t">>,
                           <<"C", "O", "N", "N", "E", "C", "T", "I", "O", "N">> }
    /\ DOMAIN req.Headers = { <<"A", "c", "c", "e", "p", "t">>,
                              <<"c", "a", "c", "h", "e", "-", "c", "o", "n", "t", "r", "o", "l">> }

\* the correlation headers derived from the request
Correlation ==
    [k \in (IF req.ID # "" THEN {<<"X", "-", "R", "e", "q", "u", "e", "s", "t", "-", "I", "D">>} ELSE {})
        \cup (IF req.SessionID # "" THEN {<<"X", "-", "S", "e", "s", "s", "i", "o", "n", "-", "I", "D">>} ELSE {})
     |-> IF k = <<"X", "-", "R", "e", "q", "u", "e", "s", "t", "-", "I", "D">>
         THEN req.ID ELSE req.SessionID]

Defines(layer, n) == \E k \in DOMAIN layer : EqualFold(k, n)
ValueIn(layer, n) == layer[CHOOSE k \in DOMAIN layer : EqualFold(k, n)]

\* the value of the last layer that defines header name n
LastLayerValue(n) ==
    IF Defines(Correlation, n) THEN ValueIn(Correlation, n)
    ELSE IF Defines(req.Headers, n) THEN ValueIn(req.Headers, n)
    ELSE ValueIn(hHeaders, n)

\* C10 as stated: every header name a layer defines (other than the three a
\* streaming call forces) goes out with the value of the last layer defining
\* it and no value of an earlier layer: client defaults, then request
\* overrides, then the correlation headers of non-empty ID and SessionID.
C10_LaterLayerWins ==
    hdrPc = "sent" =>
        \A n \in DOMAIN hHeaders \cup DOMAIN req.Headers \cup DOMAIN Correlation :
            (kind = "doStream" /\ \E f \in StreamHeaderNames : EqualFold(f, n))
            \/ WireValues(n) = {LastLayerValue(n)}

\* C11: a streaming call that fails before a response is received ends by
\* returning the error to its caller (it never ends any other way), starts no
\* goroutine and leaves the channel untouched: nothing sent, not closed.
C11_PreflightFailureReturned ==
    (~HasResp /\ callerPc # "start") =>
        /\ callerPc = "returned"
        /\ panicked = "none"
        /\ ret \in PreflightErrs
        /\ pumpPc = "idle"
        /\ sent = <<>>
        /\ closers = <<>>
        /\ stream = [buf |-> <<>>, closed |-> FALSE]

\* C12: every terminal path of a call that received a response closes the
\* response body: the goroutine that closed the channel (doStream itself on a
\* status other than 200, the pump otherwise) has either closed the body too
\* or is at the deferred resp.Body.Close() that runs next; a call that has
\* ended has closed it; the body is never closed before the channel.
C12_BodyClosedOnEveryExit ==
    /\ ~HasResp => ~bodyClosed
    /\ bodyClosed => stream.closed
    /\ pumpPc = "done" => bodyClosed
    /\ (Non200 /\ callerPc = "returned") => bodyClosed
    /\ (stream.closed /\ ~bodyClosed) =>
           IF Non200 THEN callerPc = "deferBody" ELSE pumpPc = "deferBody"
    /\ bodyClosed =>
           IF Non200 THEN callerPc = "returned" ELSE pumpPc = "done"

\* The non-200 call whose io.ReadAll failed has returned with the channel
\* closed empty and the body closed.
C12_Witness ==
    /\ Non200
    /\ callerPc = "returned"
    /\ ret = [kind |-> "failed to read error response body"]
    /\ sent = <<>>
    /\ stream.closed
    /\ bodyClosed

\* The error kinds with which the goroutine reports a read that failed
\* mid-stream
ReadFailureKinds == {StreamReadError(e).kind : e \in ReadErrs \ {"EOF"}}

\* C13: the terminal event of a clean end of the body (io.EOF, no sentinel)
\* reports an error kind that no read failure is reported with, so a clean
\* close cannot be taken for a failure mid-stream.
C13_CleanEOFDistinctKind ==
    (readEnd.err = "EOF") =>
        \A i \in EOFAt(Outgoing) : Outgoing[i].Error.kind \notin ReadFailureKinds

\* Every event built so far: those sent and the one a goroutine is about to
\* send
Built ==
    IF callerPc = "send" \/ pumpPc = "send" THEN Append(sent, pend) ELSE sent

StreamResponseTypes ==
    {StreamResponseTypeEOF, StreamResponseTypeData, StreamResponseTypeEvent,
     StreamResponseTypeID, StreamResponseTypeRetry, StreamResponseTypeComment}

\* C14: every event ever sent carries the status code and the headers of the
\* response of this call and a kind of the closed set; only an EndOfStream
\* event carries a non-nil Error: every Data, Event, ID, Retry and Comment
\* event has a nil Error and status 200.  What the consumer holds and what is
\* buffered are exactly the events sent.
C14_EventFields ==
    /\ \A i \in 1..Len(Built) :
         /\ HasResp
         /\ Built[i].StatusCode = resp.StatusCode
         /\ Built[i].Headers = resp.Header
         /\ Built[i].Type \in StreamResponseTypes
         /\ Built[i].Error # NilErr => Built[i].Type = StreamResponseTypeEOF
         /\ Built[i].Type # StreamResponseTypeEOF =>
              /\ Built[i].Error = NilErr
              /\ Built[i].StatusCode = StatusOK
    /\ received \o stream.buf = sent

\* A data event with nil Error was sent and then a terminal event with an
\* Error, both with the status and headers of the response.
C14_Witness ==
    /\ Len(sent) = 2
    /\ sent[1].Type = StreamResponseTypeData
    /\ sent[1].Error = NilErr
    /\ sent[2].Type = StreamResponseTypeEOF
    /\ sent[2].Error # NilErr
    /\ sent[2].Headers = resp.Header

\* C15: the opening call never waits for the consumer: whatever the status
\* and the capacity of the channel, and whether or not anything is receiving,
\* doStream is never held at a channel send that cannot proceed.
C15_OpenNeverWaits == ~(callerPc = "send" /\ ~CanSend)

\* The pump holds an event it cannot hand over: the consumer has stopped and
\* the channel has no room.
PumpBlocked == pumpPc = "send" /\ consumerPc = "stopped" /\ ~CanSend

\* C16: once the consumer has stopped while the pump has an event to send and
\* the channel has no free capacity, every step leaves the pump blocked at
\* that send with that event: nothing is dropped or sent, no further line is
\* read, the channel is not closed and the body is not closed; cancelling ctx
\* is such a step.
C16_BlockedPumpStays ==
    [][PumpBlocked =>
         /\ PumpBlocked'
         /\ UNCHANGED << pend, after, linesRead, readEnd, sent, stream,
                         received, closers, bodyClosed >>
         /\ ~stream.closed /\ ~bodyClosed]_vars

\* The pump is blocked with an event in hand on a full buffered channel and
\* ctx has been cancelled.
C16_Witness ==
    /\ PumpBlocked
    /\ ctxDone
    /\ cap > 0
    /\ Len(stream.buf) = cap
    /\ pend.Type = StreamResponseTypeData

\* C17: when the consumer never stops receiving, a call that got status 200
\* leads to the end of its goroutine: the channel is closed and the response
\* body is closed (the body ends within MaxLines lines by the sentinel, EOF
\* or a read error).
C17_PumpTerminates ==
    [](consumerPc # "stopped") =>
        ((resp.StatusCode = StatusOK) ~>
            (pumpPc = "done" /\ stream.closed /\ bodyClosed))

\* The goroutine of a 200 call has ended after a data event and the sentinel,
\* with a consumer that never stopped and has seen the channel closed.
C17_Witness ==
    /\ Is200
    /\ pumpPc = "done"
    /\ stream.closed
    /\ bodyClosed
    /\ consumerPc # "stopped"
    /\ Len(received) = 2
    /\ readEnd = NoRead
    /\ sawClose

\* C18: what the consumer has received is, in order and without loss or
\* duplicate, what the rules of classification give for the lines read so
\* far: the non-terminal events received are a prefix of the events of the
\* non-empty trimmed lines, the lines read stop at the first terminal
\* condition, and once the consumer has seen the channel closed it holds
\* exactly those events followed by the one terminal event.
C18_ReceivedIsClassifiedBody ==
    Is200 =>
        /\ received \o stream.buf = sent
        /\ IsPrefixOf(NonTerminal(received), RuleEvents(linesRead))
        /\ \A i \in 1..Len(linesRead) :
             IsSentinel(linesRead[i]) => i = Len(linesRead) /\ readEnd = NoRead
        /\ sawClose =>
             /\ Len(received) = Len(RuleEvents(linesRead)) + 1
             /\ SubSeq(received, 1, Len(received) - 1) = RuleEvents(linesRead)
             /\ received[Len(received)].Type = StreamResponseTypeEOF

\* Scenario A: the body was a data line and the sentinel; the consumer
\* received the data event, then the terminal event, then saw the close.
C18_Witness ==
    /\ Is200
    /\ cap = 1
    /\ Len(linesRead) = 2
    /\ ~IsSentinel(linesRead[1])
    /\ IsSentinel(linesRead[2])
    /\ Len(received) = 2
    /\ received[1].Type = StreamResponseTypeData
    /\ received[1].Body = <<"h", "i">>
    /\ received[2].Type = StreamResponseTypeEOF
    /\ received[2].Error = NilErr
    /\ sawClose

\* C20: when the body ends with bytes not terminated by a newline, those
\* bytes are never delivered: the events are those of the complete lines
\* read before, followed only by the terminal event with empty Body and a
\* non-nil Error; nothing is classified from the tail, and a tail spelling
\* the sentinel does not give the nil-error terminal event.
C20_UnterminatedTailDropped ==
    (readEnd # NoRead /\ readEnd.line # <<>>) =>
        /\ NonTerminal(Outgoing) = RuleEvents(linesRead)
        /\ Len(Outgoing) = Len(RuleEvents(linesRead)) + 1
        /\ \A i \in 1..Len(Outgoing) :
             Outgoing[i].Type = StreamResponseTypeEOF =>
                 /\ i = Len(Outgoing)
                 /\ Outgoing[i].Error # NilErr
                 /\ Outgoing[i].Body = <<>>

\* The body ended with an unterminated "data: [DONE]" after no complete line:
\* the consumer received one event, the terminal one with an Error, and saw
\* the channel closed.
C20_Witness ==
    /\ readEnd # NoRead
    /\ readEnd.line = <<"d", "a", "t", "a", ":", " ", "[", "D", "O", "N", "E", "]">>
    /\ linesRead = <<>>
    /\ Len(received) = 1
    /\ received[1].Error # NilErr
    /\ sawClose

\* The calls that have sent on channel ch or closed it
Producers(ch) ==
    chans[ch].senders \cup {chans[ch].closers[i] : i \in 1..Len(chans[ch].closers)}

\* The caller gave no two calls the same channel
DistinctChans == \A c, d \in Calls : chanOf[c] = chanOf[d] => c = d

\* C19 as stated: each call has a channel and a goroutine of its own, so for
\* any number of calls, one after another or at once, no channel is written
\* to or closed by more than one producer (and so no send or close meets a
\* closed channel).
C19_Original ==
    /\ \A ch \in Chans : Cardinality(Producers(ch)) <= 1
    /\ crashed = "none"
    /\ \A c \in Calls : callPc[c] = "returned" /\ status[c] # 0 => pumps[c] = 1

\* C19 amended: a call makes no channel, it sends on and closes only the
\* channel its caller passed; it starts one goroutine when the status is 200
\* and none otherwise; a channel passed to one call only has one producer and
\* is closed at most once, and a panic on a closed channel happens only when
\* two calls were given the same channel.
C19_Amended ==
    /\ \A ch \in Chans :
         Producers(ch) \subseteq {c \in Calls : chanOf[c] = ch /\ status[c] # 0}
    /\ \A c \in Calls :
         /\ pumps[c] <= 1
         /\ pumps[c] = 1 <=> (status[c] = StatusOK /\ callPc[c] = "returned")
         /\ pumpAt[c] # "none" <=> pumps[c] = 1
    /\ DistinctChans =>
         /\ crashed = "none"
         /\ \A ch \in Chans :
              /\ Cardinality(Producers(ch)) <= 1
              /\ Len(chans[ch].closers) <= 1
    /\ \A ch \in Chans : Len(chans[ch].closers) <= 1

\* Two calls given two channels have both ended, one by its goroutine and
\* one in the non-200 branch: each channel was closed by its own call.
C19_Witness ==
    /\ DistinctChans
    /\ status[1] = StatusOK /\ pumpAt[1] = "done"
    /\ status[2] \notin {0, StatusOK} /\ callPc[2] = "returned"
    /\ chans[chanOf[1]].closers = <<1>>
    /\ chans[chanOf[2]].closers = <<2>>
    /\ chans[chanOf[1]].senders = {1}

\* The field names of the prefix rules, each with its colon
FieldColon ==
    { <<"d", "a", "t", "a", ":">>, <<"e", "v", "e", "n", "t", ":">>,
      <<"i", "d", ":">>, <<"r", "e", "t", "r", "y", ":">> }

\* raw is a field name, a colon and nothing but white space up to and
\* including the newline
BareField(raw) ==
    \E f \in FieldColon :
        /\ Len(raw) > Len(f) + 1
        /\ SubSeq(raw, 1, Len(f)) = f
        /\ \A i \in (Len(f) + 1)..Len(raw) : raw[i] \in WhiteSpace

\* The field name and colon raw begins with
FieldOf(raw) == CHOOSE f \in FieldColon : SubSeq(raw, 1, Len(f)) = f

\* C23: a line made of a field name, a colon and only white space no longer
\* matches its "field: " prefix once trimmed: reading it makes the goroutine
\* send one Data event whose Body is the trimmed line verbatim ("data:",
\* "event:", "id:", "retry:"), never an Event, ID or Retry event and never a
\* Data event with an empty Body, and the goroutine goes on reading.
C23_BareFieldIsData ==
    [][ (linesRead' # linesRead /\ BareField(linesRead'[Len(linesRead')])) =>
          /\ pumpPc' = "send"
          /\ after' = "read"
          /\ pend'.Type = StreamResponseTypeData
          /\ pend'.Body = FieldOf(linesRead'[Len(linesRead')])
          /\ pend'.Body # <<>>
          /\ pend'.Error = NilErr ]_vars

\* The lines "retry: " and "id: " were read and the consumer received two
\* Data events with the bodies "retry:" and "id:".
C23_Witness ==
    /\ Len(linesRead) = 2
    /\ BareField(linesRead[1]) /\ BareField(linesRead[2])
    /\ Len(received) = 2
    /\ received[1].Type = StreamResponseTypeData
    /\ received[1].Body = <<"r", "e", "t", "r", "y", ":">>
    /\ received[2].Type = StreamResponseTypeData
    /\ received[2].Body = <<"i", "d", ":">>

\* C22: in the doStream of src/unnamed/part_001 every read that ends an open
\* stream, a clean EOF as much as any other read failure, has exactly one
\* event with a non-nil Error sent, the last one, before the channel is
\* closed: the channel is never closed after a read failure with no terminal
\* event sent.
C22_Part001TerminalEvent ==
    (Is200 /\ readEnd # NoRead /\ stream.closed) =>
        /\ sent # <<>>
        /\ sent[Len(sent)].Error # NilErr
        /\ Cardinality({i \in 1..Len(sent) : sent[i].Error # NilErr}) = 1

\* C21: once SetClient(c) has been called on a Client from NewHttpClient,
\* every later call of Get, Post, Put, Patch, Delete, GetStream or PostStream
\* on it is sent through the c of the latest SetClient and not through the
\* transport the Client was constructed with.
C21_SetClientTakesEffect ==
    \A i \in 1..Len(via) :
        via[i].after > 0 => via[i].client = given[via[i].after]

====
